---------------------------- MODULE Spec2Model ----------------------------
(***************************************************************************)
(* A state-machine model of simon-says.py, the MicroPython "Simple Simon"  *)
(* game for the Pico RGB keypad: difficulty menu, sequence generation,     *)
(* playback, guess polling and the two terminal animations.                *)
(*                                                                         *)
(* Durations are in milliseconds, except GUESS_TIMEOUT and elapsed, which  *)
(* are in seconds (the unit of time.time()).  Python indices are 0-based;  *)
(* At(s, i) reads s[i].  Python's None is the number None.                 *)
(***************************************************************************)
EXTENDS Integers, Sequences, FiniteSets, TLC

\* ------------------------------------------------------------ bounds

\* Each ADC sample read by new_game is drawn from 0..MaxAdc.
MaxAdc == 1

\* choose_skill_level accepts at most this many increases in one run.
MaxIncreases == 5

\* ------------------------------------------------- program constants

None == 0

FAILURE_TONE == 100
SEQUENCE_DELAY == 800
GUESS_TIMEOUT == 3
DEBOUNCE == 250

SEQUENCE_LENGTH == [l \in 1..4 |-> CASE l = 1 -> 8 [] l = 2 -> 14 [] l = 3 -> 20 [] OTHER -> 31]

Levels == DOMAIN SEQUENCE_LENGTH

ButtonIds == 1..4

NUM_PADS == 16

Pads == 0..(NUM_PADS - 1)

\* The value of SIMON_BUTTONS when the program starts.
InitialButtons ==
    [k \in ButtonIds |->
        CASE k = 1 -> [pads |-> <<0, 1, 4, 5>>, pixels |-> <<0, 1, 4, 5>>,
                       R |-> 255, G |-> 255, B |-> 0, freq |-> 415]
          [] k = 2 -> [pads |-> <<2, 3, 6, 7>>, pixels |-> <<2, 3, 6, 7>>,
                       R |-> 0, G |-> 0, B |-> 255, freq |-> 252]
          [] k = 3 -> [pads |-> <<8, 9, 12, 13>>, pixels |-> <<8, 9, 12, 13>>,
                       R |-> 255, G |-> 0, B |-> 0, freq |-> 209]
          [] OTHER -> [pads |-> <<10, 11, 14, 15>>, pixels |-> <<10, 11, 14, 15>>,
                       R |-> 0, G |-> 255, B |-> 0, freq |-> 310]]

\* ------------------------------------------------------------ helpers

RECURSIVE Pow2(_)
Pow2(n) == IF n = 0 THEN 1 ELSE 2 * Pow2(n - 1)

\* s[i] with Python's 0-based index.
At(s, i) == s[i + 1]

Elems(s) == {s[i] : i \in DOMAIN s}

Min(S) == CHOOSE x \in S : \A y \in S : x <= y

\* The keypad masks of the two menu keys.
StartMask == 32768

IncreaseMask == 16384

\* The keypad states the player produces in the game: nothing pressed, one
\* key of each button (14 and 15 belong to button 4), and a two-key chord.
Masks == {0, Pow2(0), Pow2(2), Pow2(8), IncreaseMask, StartMask, Pow2(0) + Pow2(1)}

\* Every state the 16 keys can be in.
AllMasks == 0..(Pow2(NUM_PADS) - 1)

Off == <<0, 0, 0>>

White == <<255, 255, 255>>

\* keypad.clear(): every position of the illumination buffer off.
Clear == [p \in Pads |-> Off]

\* keypad.illuminate(p, r, g, b) for every p of ps, on buffer buf.
Illuminate(buf, ps, rgb) == [p \in Pads |-> IF p \in ps THEN rgb ELSE buf[p]]

Colour(bt) == <<bt.R, bt.G, bt.B>>

\* ------------------------------------------------------------ state

VARIABLES
    pc,              \* the statement the program is at
    stack,           \* return labels of the calls in progress
    buttons,         \* the keys physically held (keypad.get_button_states())
    leds,            \* the keypad's illumination buffer
    lit,             \* the illumination last committed by keypad.update()
    duty,            \* buzzer duty cycle
    buzz_freq,       \* buzzer oscillator frequency (None until first set)
    SIMON_BUTTONS,   \* the button table (game_won rewrites freq)
    skill_level,
    increases,       \* history: increases accepted by the running choose_skill_level
    held_increases,  \* history: those accepted since the keys last changed
    sequence,
    current_step,
    b,               \* show_sequence's loop index
    duration,        \* show_sequence's cue duration
    step,            \* the guess loop's index
    guess,
    guesses,         \* history: the guesses compared so far in this round
    elapsed,         \* time.time() - start_guess_time
    button,          \* indicate_button's button (its key in SIMON_BUTTONS)
    ind_duration,    \* indicate_button's duration
    frequency,       \* play_tone's frequency
    tone_duration,   \* play_tone's duration
    lost_step,       \* game_lost's argument
    won_i,           \* game_won's position in its animation
    shown,           \* history: the buttons cued so far by the running show_sequence
    won_cues,        \* history: the cues begun by game_won (from the 23rd on: 23..26 in turn)
    held_guesses     \* history: presses recognized since the keys last changed (2: two or more)

vars == <<pc, stack, buttons, leds, lit, duty, buzz_freq, SIMON_BUTTONS,
          skill_level, increases, held_increases, sequence, current_step, b,
          duration, step, guess, guesses, elapsed, button, ind_duration, frequency,
          tone_duration, lost_step, won_i, shown, won_cues, held_guesses>>

keypadVars == <<leds, lit>>
buzzerVars == <<duty, buzz_freq>>
menuVars == <<skill_level, increases, held_increases>>
gameVars == <<sequence, current_step>>
showVars == <<b, duration>>
guessVars == <<step, guess, guesses, elapsed>>
cueVars == <<button, ind_duration>>
toneVars == <<frequency, tone_duration>>
endVars == <<lost_step, won_i>>
histVars == <<shown, won_cues, held_guesses>>

Init ==
    /\ pc = "start"
    /\ stack = <<>>
    /\ buttons = 0
    /\ leds = Clear
    /\ lit = Clear
    /\ duty = 0
    /\ buzz_freq = None
    /\ SIMON_BUTTONS = InitialButtons
    /\ skill_level = None
    /\ increases = 0
    /\ held_increases = 0
    /\ sequence = <<>>
    /\ current_step = None
    /\ b = None
    /\ duration = None
    /\ step = None
    /\ guess = None
    /\ guesses = <<>>
    /\ elapsed = 0
    /\ button = None
    /\ ind_duration = None
    /\ frequency = None
    /\ tone_duration = None
    /\ lost_step = None
    /\ won_i = 0
    /\ shown = <<>>
    /\ won_cues = 0
    /\ held_guesses = 0

\* ------------------------------------------------------------ player

\* The places where the program reads the keypad next.
ReadPoints == {"skill_while", "skill_if", "get_press"}

\* The player changes the keys held.  Only the state at a read is seen by
\* the program, so changes are taken just before one.
PlayerInput ==
    /\ pc \in ReadPoints
    /\ \E m \in Masks \ {buttons} : buttons' = m
    /\ held_increases' = 0
    /\ held_guesses' = 0
    /\ UNCHANGED <<pc, stack, keypadVars, buzzerVars, SIMON_BUTTONS,
                   skill_level, increases, gameVars, showVars, guessVars,
                   cueVars, toneVars, endVars, shown, won_cues>>

\* ---------------------------------------------------- difficulty menu

\* Lines 185-188 and the entry of choose_skill_level (line 58).
Startup ==
    /\ pc = "start"
    /\ leds' = Illuminate(Clear, {14}, White)
    /\ lit' = leds'
    /\ skill_level' = 1
    /\ increases' = 0
    /\ held_increases' = 0
    /\ pc' = "skill_while"
    /\ UNCHANGED <<stack, buttons, buzzerVars, SIMON_BUTTONS, gameVars,
                   showVars, guessVars, cueVars, toneVars, endVars, histVars>>

\* The wrap test off by one.
NextLevelLate(l) == IF l + 1 <= 5 THEN l + 1 ELSE 1

\* skill_level += 1; skill_level = skill_level if skill_level < 5 else 1
NextLevel(l) == IF l + 1 < 5 THEN l + 1 ELSE 1

\* The loop test of line 61: the start key alone ends the menu.
SkillWhile ==
    /\ pc = "skill_while"
    /\ IF buttons = StartMask
         THEN /\ pc' = "new_game"
              /\ increases' = 0
              /\ held_increases' = 0
         ELSE /\ pc' = "skill_if"
              /\ UNCHANGED <<increases, held_increases>>
    /\ UNCHANGED <<stack, buttons, keypadVars, buzzerVars, SIMON_BUTTONS,
                   skill_level, gameVars, showVars, guessVars, cueVars,
                   toneVars, endVars, histVars>>

\* An edge-triggered increase: a key held since the last increase is ignored.
SkillIfOncePerPress ==
    /\ pc = "skill_if"
    /\ IF buttons = IncreaseMask /\ held_increases = 0
         THEN /\ increases < MaxIncreases
              /\ skill_level' = IF skill_level + 1 < 5 THEN skill_level + 1 ELSE 1
              /\ increases' = increases + 1
              /\ held_increases' = held_increases + 1
              /\ leds' = Illuminate(Clear, 0..(skill_level' - 1), <<0, 32, 0>>)
              /\ pc' = "skill_debounce"
         ELSE /\ pc' = "skill_while"
              /\ UNCHANGED <<skill_level, increases, held_increases, leds>>
    /\ UNCHANGED <<stack, buttons, lit, buzzerVars, SIMON_BUTTONS, gameVars,
                   showVars, guessVars, cueVars, toneVars, endVars, histVars>>

\* Lines 63-69: a second reading; the increase key alone raises the level
\* and shows it, then the debounce sleep begins.
SkillIf ==
    /\ pc = "skill_if"
    /\ IF buttons = IncreaseMask
         THEN /\ increases < MaxIncreases
              /\ skill_level' = NextLevel(skill_level)
              /\ increases' = increases + 1
              /\ held_increases' = held_increases + 1
              /\ leds' = Illuminate(Clear, 0..(skill_level' - 1), <<0, 32, 0>>)
              /\ pc' = "skill_debounce"
         ELSE /\ pc' = "skill_while"
              /\ UNCHANGED <<skill_level, increases, held_increases, leds>>
    /\ UNCHANGED <<stack, buttons, lit, buzzerVars, SIMON_BUTTONS, gameVars,
                   showVars, guessVars, cueVars, toneVars, endVars, histVars>>

\* The increase key is lit again together with the start key.
SkillDebounceBothKeys ==
    /\ pc = "skill_debounce"
    /\ leds' = Illuminate(leds, {14, 15}, White)
    /\ lit' = leds'
    /\ pc' = "skill_while"
    /\ UNCHANGED <<stack, buttons, buzzerVars, SIMON_BUTTONS, menuVars,
                   gameVars, showVars, guessVars, cueVars, toneVars, endVars,
                   histVars>>

\* Lines 70-73: the debounce sleep is over; light the start key and commit.
SkillDebounce ==
    /\ pc = "skill_debounce"
    /\ leds' = Illuminate(leds, {15}, White)
    /\ lit' = leds'
    /\ pc' = "skill_while"
    /\ UNCHANGED <<stack, buttons, buzzerVars, SIMON_BUTTONS, menuVars,
                   gameVars, showVars, guessVars, cueVars, toneVars, endVars, histVars>>

\* -------------------------------------------------- sequence generator

\* One step of the pseudo-random generator behind random.seed/randint: a
\* deterministic function of the generator's state.
Rand(x) == (75 * x + 74) % 65537

\* random.randint(1, 4) from generator state x.
RandInt(x) == 1 + (x % 4)

RECURSIVE Draws(_, _)
\* [random.randint(1,4) for i in range(n)] starting from generator state x.
Draws(x, n) == IF n = 0 THEN <<>>
               ELSE <<RandInt(Rand(x))>> \o Draws(Rand(x), n - 1)

\* A sequence one entry short.
new_game_short(level, a1, a2, a3) ==
    Draws(a1 + a2 + a3, SEQUENCE_LENGTH[level] - 1)

\* new_game(skill_level) with ADC samples a1, a2, a3.
new_game(level, a1, a2, a3) == Draws(a1 + a2 + a3, SEQUENCE_LENGTH[level])

AdcSamples == 0..MaxAdc

\* Lines 192-193: sequence = new_game(skill_level); current_step = 1.
NewGame ==
    /\ pc = "new_game"
    /\ \E a1, a2, a3 \in AdcSamples :
          sequence' = new_game(skill_level, a1, a2, a3)
    /\ current_step' = 1
    /\ pc' = "show"
    /\ UNCHANGED <<stack, buttons, keypadVars, buzzerVars, SIMON_BUTTONS,
                   menuVars, showVars, guessVars, cueVars, toneVars, endVars, histVars>>

\* ------------------------------------------------------------ cues

\* indicate_button, lines 96-100 and the test of line 103: show the button,
\* commit, then either the silent sleep or play_tone.
IndicateOn ==
    /\ pc = "ind_on"
    /\ leds' = Illuminate(Clear, Elems(SIMON_BUTTONS[button].pixels),
                          Colour(SIMON_BUTTONS[button]))
    /\ lit' = leds'
    /\ IF SIMON_BUTTONS[button].freq = None
         THEN /\ pc' = "ind_sleep"
              /\ UNCHANGED <<stack, toneVars>>
         ELSE /\ frequency' = SIMON_BUTTONS[button].freq
              /\ tone_duration' = ind_duration
              /\ stack' = <<"ind_off">> \o stack
              /\ pc' = "tone_duty"
    /\ UNCHANGED <<buttons, buzzerVars, SIMON_BUTTONS, menuVars, gameVars,
                   showVars, guessVars, cueVars, endVars, histVars>>

\* Line 104: the sleep of a cue without tone is over.
IndicateSleep ==
    /\ pc = "ind_sleep"
    /\ pc' = "ind_off"
    /\ UNCHANGED <<stack, buttons, keypadVars, buzzerVars, SIMON_BUTTONS,
                   menuVars, gameVars, showVars, guessVars, cueVars,
                   toneVars, endVars, histVars>>

\* The buffer is cleared but never committed.
IndicateOffNoUpdate ==
    /\ pc = "ind_off"
    /\ leds' = Clear
    /\ pc' = Head(stack)
    /\ stack' = Tail(stack)
    /\ UNCHANGED <<buttons, lit, buzzerVars, SIMON_BUTTONS, menuVars,
                   gameVars, showVars, guessVars, cueVars, toneVars, endVars,
                   histVars>>

\* Lines 108-109: all off, commit, return.
IndicateOff ==
    /\ pc = "ind_off"
    /\ leds' = Clear
    /\ lit' = leds'
    /\ pc' = Head(stack)
    /\ stack' = Tail(stack)
    /\ UNCHANGED <<buttons, buzzerVars, SIMON_BUTTONS, menuVars, gameVars,
                   showVars, guessVars, cueVars, toneVars, endVars, histVars>>

\* play_tone, line 50.
PlayToneDuty ==
    /\ pc = "tone_duty"
    /\ duty' = 1000
    /\ pc' = "tone_freq"
    /\ UNCHANGED <<stack, buttons, keypadVars, buzz_freq, SIMON_BUTTONS,
                   menuVars, gameVars, showVars, guessVars, cueVars,
                   toneVars, endVars, histVars>>

\* play_tone, line 51; the sleep of line 52 begins.
PlayToneFreq ==
    /\ pc = "tone_freq"
    /\ buzz_freq' = frequency
    /\ pc' = "tone_sleep"
    /\ UNCHANGED <<stack, buttons, keypadVars, duty, SIMON_BUTTONS, menuVars,
                   gameVars, showVars, guessVars, cueVars, toneVars, endVars, histVars>>

\* A play_tone that returns with the output still enabled.
PlayToneOffStaysOn ==
    /\ pc = "tone_sleep"
    /\ pc' = Head(stack)
    /\ stack' = Tail(stack)
    /\ UNCHANGED <<buttons, keypadVars, buzzerVars, SIMON_BUTTONS, menuVars,
                   gameVars, showVars, guessVars, cueVars, toneVars, endVars, histVars>>

\* play_tone, line 53: the sleep is over; output off, return.
PlayToneOff ==
    /\ pc = "tone_sleep"
    /\ duty' = 0
    /\ pc' = Head(stack)
    /\ stack' = Tail(stack)
    /\ UNCHANGED <<buttons, keypadVars, buzz_freq, SIMON_BUTTONS, menuVars,
                   gameVars, showVars, guessVars, cueVars, toneVars, endVars, histVars>>

\* ------------------------------------------------------------ playback

\* The table with its first boundary off by one.
ShowDurationOffByOne(n) == IF n < 5 THEN 420 ELSE IF n <= 13 THEN 320 ELSE 220

\* Lines 113-118.
ShowDuration(n) == IF n <= 5 THEN 420 ELSE IF n <= 13 THEN 320 ELSE 220

\* show_sequence(sequence, current_step), lines 113-122: the duration is
\* chosen, the loop begins, the 50 ms gap before the first cue begins.
ShowSequence ==
    /\ pc = "show"
    /\ duration' = ShowDuration(current_step)
    /\ b' = 0
    /\ shown' = <<>>
    /\ pc' = "show_gap"
    /\ UNCHANGED <<stack, buttons, keypadVars, buzzerVars, SIMON_BUTTONS,
                   menuVars, gameVars, guessVars, cueVars, toneVars, endVars,
                   won_cues, held_guesses>>

\* Line 123: the gap is over; indicate_button(SIMON_BUTTONS[sequence[b]], duration).
ShowCue ==
    /\ pc = "show_gap"
    /\ button' = At(sequence, b)
    /\ ind_duration' = duration
    /\ shown' = Append(shown, button')
    /\ stack' = <<"show_next">> \o stack
    /\ pc' = "ind_on"
    /\ UNCHANGED <<buttons, keypadVars, buzzerVars, SIMON_BUTTONS, menuVars,
                   gameVars, showVars, guessVars, toneVars, endVars,
                   won_cues, held_guesses>>

\* The loop bound off by one: one entry too many is played.
ShowNextOneMore ==
    /\ pc = "show_next"
    /\ IF b + 1 <= current_step /\ b + 1 < Len(sequence)
         THEN /\ b' = b + 1
              /\ pc' = "show_gap"
              /\ UNCHANGED <<step, guesses>>
         ELSE /\ step' = 0
              /\ guesses' = <<>>
              /\ pc' = "guess_open"
              /\ UNCHANGED b
    /\ UNCHANGED <<stack, buttons, keypadVars, buzzerVars, SIMON_BUTTONS,
                   menuVars, gameVars, duration, guess, elapsed,
                   cueVars, toneVars, endVars, histVars>>

\* Line 121 after a cue: the next entry, or the return to the main loop,
\* where the guess loop of line 201 begins.
ShowNext ==
    /\ pc = "show_next"
    /\ IF b + 1 < current_step
         THEN /\ b' = b + 1
              /\ pc' = "show_gap"
              /\ UNCHANGED <<step, guesses>>
         ELSE /\ step' = 0
              /\ guesses' = <<>>
              /\ pc' = "guess_open"
              /\ UNCHANGED b
    /\ UNCHANGED <<stack, buttons, keypadVars, buzzerVars, SIMON_BUTTONS,
                   menuVars, gameVars, duration, guess, elapsed,
                   cueVars, toneVars, endVars, histVars>>

\* ------------------------------------------------------------ guesses

\* A chord is taken for its lowest key.
MatchButtonFirstKey(m) ==
    LET keys == {p \in Pads : (m \div Pow2(p)) % 2 = 1}
        hit == {k \in ButtonIds :
                  \E i \in DOMAIN SIMON_BUTTONS[k].pads :
                      keys # {} /\ SIMON_BUTTONS[k].pads[i] = Min(keys)}
    IN IF hit = {} THEN None ELSE Min(hit)

\* A test of the pad's bit (current_buttons & (1 << pad)) in place of the
\* equality.
MatchButtonAnyBit(m) ==
    LET hit == {k \in ButtonIds :
                  \E i \in DOMAIN SIMON_BUTTONS[k].pads :
                      (m \div Pow2(SIMON_BUTTONS[k].pads[i])) % 2 = 1}
    IN IF hit = {} THEN None ELSE Min(hit)

\* Lines 131-137: the first button, in table order, one of whose pads is
\* the only key held; None when there is none.
MatchButton(m) ==
    LET hit == {k \in ButtonIds :
                  \E i \in DOMAIN SIMON_BUTTONS[k].pads :
                      m = Pow2(SIMON_BUTTONS[k].pads[i])}
    IN IF hit = {} THEN None ELSE Min(hit)

\* A comparison of the colours' red channel only.
SameRed(g, e) == g # None /\ SIMON_BUTTONS[g].R = SIMON_BUTTONS[e].R

\* guess == SIMON_BUTTONS[e]: the guess is a table entry or None, and
\* Python compares table entries by value.
SameButton(g, e) == g # None /\ SIMON_BUTTONS[g] = SIMON_BUTTONS[e]

\* Lines 202-203: a guess window opens.
GuessOpen ==
    /\ pc = "guess_open"
    /\ elapsed' = 0
    /\ guess' = None
    /\ pc' = "guess_while"
    /\ UNCHANGED <<stack, buttons, keypadVars, buzzerVars, SIMON_BUTTONS,
                   menuVars, gameVars, showVars, step, guesses,
                   cueVars, toneVars, endVars, histVars>>

\* A second passes.  The clock is read only by the test of line 204.
Tick ==
    /\ pc = "guess_while"
    /\ elapsed < GUESS_TIMEOUT
    /\ elapsed' = elapsed + 1
    /\ UNCHANGED <<pc, stack, buttons, keypadVars, buzzerVars, SIMON_BUTTONS,
                   menuVars, gameVars, showVars, step, guess, guesses,
                   cueVars, toneVars, endVars, histVars>>

\* A guess loop that ignores the clock.
GuessWhileNoTimeout ==
    /\ pc = "guess_while"
    /\ pc' = IF guess = None THEN "get_press" ELSE "guess_check"
    /\ UNCHANGED <<stack, buttons, keypadVars, buzzerVars, SIMON_BUTTONS,
                   menuVars, gameVars, showVars, guessVars, cueVars,
                   toneVars, endVars, histVars>>

\* Line 204.
GuessWhile ==
    /\ pc = "guess_while"
    /\ pc' = IF elapsed < GUESS_TIMEOUT /\ guess = None
               THEN "get_press" ELSE "guess_check"
    /\ UNCHANGED <<stack, buttons, keypadVars, buzzerVars, SIMON_BUTTONS,
                   menuVars, gameVars, showVars, guessVars, cueVars,
                   toneVars, endVars, histVars>>

\* get_button_press, lines 129-137: one reading; a recognized press is
\* echoed by indicate_button(button, DEBOUNCE), otherwise None is returned
\* to line 205.
GetButtonPress ==
    /\ pc = "get_press"
    /\ IF MatchButton(buttons) # None
         THEN /\ button' = MatchButton(buttons)
              /\ ind_duration' = DEBOUNCE
              /\ stack' = <<"press_ret">> \o stack
              /\ pc' = "ind_on"
              /\ held_guesses' = IF held_guesses < 2 THEN held_guesses + 1 ELSE 2
              /\ UNCHANGED guess
         ELSE /\ guess' = None
              /\ pc' = "guess_while"
              /\ UNCHANGED <<stack, cueVars, held_guesses>>
    /\ UNCHANGED <<buttons, keypadVars, buzzerVars, SIMON_BUTTONS, menuVars,
                   gameVars, showVars, step, guesses, elapsed, toneVars,
                   endVars, shown, won_cues>>

\* Line 136 and the assignment of line 205: the echoed button is the guess.
PressReturn ==
    /\ pc = "press_ret"
    /\ guess' = button
    /\ pc' = "guess_while"
    /\ UNCHANGED <<stack, buttons, keypadVars, buzzerVars, SIMON_BUTTONS,
                   menuVars, gameVars, showVars, step, guesses, elapsed,
                   cueVars, toneVars, endVars, histVars>>

\* The argument the main loop passes to game_lost, line 207.
LostArgument == At(sequence, step)

\* Lines 206-207 and the loop of line 201: a guess that is not the expected
\* button calls game_lost; otherwise the next entry, or the end of the round.
GuessCheck ==
    /\ pc = "guess_check"
    /\ guesses' = Append(guesses, guess)
    /\ IF ~SameButton(guess, At(sequence, step))
         THEN /\ lost_step' = LostArgument
              /\ pc' = "lost_show"
              /\ UNCHANGED step
         ELSE /\ IF step + 1 < current_step
                   THEN /\ step' = step + 1
                        /\ pc' = "guess_open"
                   ELSE /\ pc' = "advance"
                        /\ UNCHANGED step
              /\ UNCHANGED lost_step
    /\ UNCHANGED <<stack, buttons, keypadVars, buzzerVars, SIMON_BUTTONS,
                   menuVars, gameVars, showVars, guess, elapsed,
                   cueVars, toneVars, won_i, histVars>>

\* The won test off by one.
AdvanceLate ==
    /\ pc = "advance"
    /\ current_step' = current_step + 1
    /\ pc' = IF current_step' > Len(sequence) + 1 THEN "won" ELSE "round_delay"
    /\ UNCHANGED <<stack, buttons, keypadVars, buzzerVars, SIMON_BUTTONS,
                   menuVars, sequence, showVars, guessVars, cueVars,
                   toneVars, endVars, histVars>>

\* A round that is won without moving on to a longer one.
AdvanceStays ==
    /\ pc = "advance"
    /\ pc' = IF current_step + 1 > Len(sequence) THEN "won" ELSE "round_delay"
    /\ UNCHANGED <<stack, buttons, keypadVars, buzzerVars, SIMON_BUTTONS,
                   menuVars, gameVars, showVars, guessVars, cueVars,
                   toneVars, endVars, histVars>>

\* Lines 211-213.
Advance ==
    /\ pc = "advance"
    /\ current_step' = current_step + 1
    /\ pc' = IF current_step' > Len(sequence) THEN "won" ELSE "round_delay"
    /\ UNCHANGED <<stack, buttons, keypadVars, buzzerVars, SIMON_BUTTONS,
                   menuVars, sequence, showVars, guessVars, cueVars,
                   toneVars, endVars, histVars>>

\* Line 216: the delay between rounds is over.
RoundDelay ==
    /\ pc = "round_delay"
    /\ pc' = "show"
    /\ UNCHANGED <<stack, buttons, keypadVars, buzzerVars, SIMON_BUTTONS,
                   menuVars, gameVars, showVars, guessVars, cueVars,
                   toneVars, endVars, histVars>>

\* ------------------------------------------------------------ lost

\* A game_lost that sets every button's tone to the failure tone, as
\* game_won does.
GameLostRetunes ==
    /\ pc = "lost_show"
    /\ leds' = Illuminate(Clear,
                          Elems(SIMON_BUTTONS[At(sequence, lost_step)].pixels),
                          Colour(SIMON_BUTTONS[At(sequence, lost_step)]))
    /\ lit' = leds'
    /\ SIMON_BUTTONS' = [k \in ButtonIds |->
                           [SIMON_BUTTONS[k] EXCEPT !.freq = FAILURE_TONE]]
    /\ frequency' = FAILURE_TONE
    /\ tone_duration' = 1500
    /\ stack' = <<"lost_halt">> \o stack
    /\ pc' = "tone_duty"
    /\ UNCHANGED <<buttons, buzzerVars, menuVars, gameVars,
                   showVars, guessVars, cueVars, endVars, histVars>>

\* game_lost(step), lines 141-146: the button SIMON_BUTTONS[sequence[step]]
\* of the global sequence is shown and committed; play_tone(FAILURE_TONE, 1.5).
GameLost ==
    /\ pc = "lost_show"
    /\ leds' = Illuminate(Clear,
                          Elems(SIMON_BUTTONS[At(sequence, lost_step)].pixels),
                          Colour(SIMON_BUTTONS[At(sequence, lost_step)]))
    /\ lit' = leds'
    /\ frequency' = FAILURE_TONE
    /\ tone_duration' = 1500
    /\ stack' = <<"lost_halt">> \o stack
    /\ pc' = "tone_duty"
    /\ UNCHANGED <<buttons, buzzerVars, SIMON_BUTTONS, menuVars, gameVars,
                   showVars, guessVars, cueVars, endVars, histVars>>

\* A game_lost without its final loop: it returns into the guess loop.
LostHaltReturns ==
    /\ pc = "lost_halt"
    /\ IF step + 1 < current_step
         THEN /\ step' = step + 1
              /\ pc' = "guess_open"
         ELSE /\ pc' = "advance"
              /\ UNCHANGED step
    /\ UNCHANGED <<stack, buttons, keypadVars, buzzerVars, SIMON_BUTTONS,
                   menuVars, gameVars, showVars, guess, guesses, elapsed,
                   cueVars, toneVars, endVars, histVars>>

\* Lines 149-150: while True: pass.
LostHalt ==
    /\ pc = "lost_halt"
    /\ UNCHANGED vars

\* ------------------------------------------------------------ won

\* A step of game_won: a cue for button arg, or every button's freq set to arg.
Cue(k) == [op |-> "cue", arg |-> k]

Retune(f) == [op |-> "freq", arg |-> f]

\* The pattern of lines 155-158.
Razz == <<Cue(4), Cue(2), Cue(3), Cue(1)>>

\* The second pattern in the order of the first.
RoundAsRazz == <<Cue(4), Cue(2), Cue(3), Cue(1)>>

\* The pattern of lines 168-171 and 179-182.
Round == <<Cue(3), Cue(1), Cue(4), Cue(2)>>

\* game_won, lines 154-182, as a list of steps; the last four repeat forever.
WonProgram ==
    Razz \o Razz \o Razz \o <<Cue(4), Cue(2)>>
      \o <<Retune(FAILURE_TONE)>> \o Round \o Round
      \o <<Retune(None)>> \o Round

\* The first step of the final while True loop.
WonLoopStart == Len(WonProgram) - 4

WonAfter(i) == IF i + 1 < Len(WonProgram) THEN i + 1 ELSE WonLoopStart

SetFreq(f) == [k \in ButtonIds |-> [SIMON_BUTTONS[k] EXCEPT !.freq = f]]

\* One cue of game_won: indicate_button(SIMON_BUTTONS[k], 0.1).
WonCue ==
    /\ pc = "won"
    /\ At(WonProgram, won_i).op = "cue"
    /\ button' = At(WonProgram, won_i).arg
    /\ ind_duration' = 100
    /\ won_i' = WonAfter(won_i)
    /\ won_cues' = IF won_cues < 26 THEN won_cues + 1 ELSE 23
    /\ stack' = <<"won">> \o stack
    /\ pc' = "ind_on"
    /\ UNCHANGED <<buttons, keypadVars, buzzerVars, SIMON_BUTTONS, menuVars,
                   gameVars, showVars, guessVars, toneVars, lost_step,
                   shown, held_guesses>>

\* Lines 163-164 and 174-175.
WonRetune ==
    /\ pc = "won"
    /\ At(WonProgram, won_i).op = "freq"
    /\ SIMON_BUTTONS' = SetFreq(At(WonProgram, won_i).arg)
    /\ won_i' = WonAfter(won_i)
    /\ UNCHANGED <<pc, stack, buttons, keypadVars, buzzerVars, menuVars,
                   gameVars, showVars, guessVars, cueVars, toneVars,
                   lost_step, histVars>>

\* ------------------------------------------------------------ system

Next ==
    \/ PlayerInput
    \/ Startup \/ SkillWhile \/ SkillIf \/ SkillDebounce
    \/ NewGame
    \/ ShowSequence \/ ShowCue \/ ShowNext
    \/ IndicateOn \/ IndicateSleep \/ IndicateOff
    \/ PlayToneDuty \/ PlayToneFreq \/ PlayToneOff
    \/ GuessOpen \/ Tick \/ GuessWhile \/ GetButtonPress \/ PressReturn
    \/ GuessCheck \/ Advance \/ RoundDelay
    \/ GameLost \/ LostHalt
    \/ WonCue \/ WonRetune

Spec == Init /\ [][Next]_vars

\* ------------------------------------------------- the game alone
\* The game from the return of choose_skill_level: the player started a
\* game of the default level 1 without pressing the increase key.

GameInit ==
    /\ pc = "new_game"
    /\ stack = <<>>
    /\ buttons = StartMask
    /\ leds = Illuminate(Clear, {14}, White)
    /\ lit = leds
    /\ duty = 0
    /\ buzz_freq = None
    /\ SIMON_BUTTONS = InitialButtons
    /\ skill_level = 1
    /\ increases = 0
    /\ held_increases = 0
    /\ sequence = <<>>
    /\ current_step = None
    /\ b = None
    /\ duration = None
    /\ step = None
    /\ guess = None
    /\ guesses = <<>>
    /\ elapsed = 0
    /\ button = None
    /\ ind_duration = None
    /\ frequency = None
    /\ tone_duration = None
    /\ lost_step = None
    /\ won_i = 0
    /\ shown = <<>>
    /\ won_cues = 0
    /\ held_guesses = 0

\* A step of the program itself after the menu: any statement but the
\* player's keys and the passing of time.
GameStep ==
    \/ NewGame
    \/ ShowSequence \/ ShowCue \/ ShowNext
    \/ IndicateOn \/ IndicateSleep \/ IndicateOff
    \/ PlayToneDuty \/ PlayToneFreq \/ PlayToneOff
    \/ GuessOpen \/ GuessWhile \/ GetButtonPress \/ PressReturn
    \/ GuessCheck \/ Advance \/ RoundDelay
    \/ GameLost \/ LostHalt
    \/ WonCue \/ WonRetune

GameNext == PlayerInput \/ Tick \/ GameStep

\* The program keeps running (every sleep returns) and the clock keeps
\* advancing; the player is free to press, hold, release or do nothing.
\* The guess loop reads the clock on every pass, between which the poll
\* runs, so the clock's fairness is strong.
FairGame ==
    /\ GameInit
    /\ [][GameNext]_vars
    /\ WF_vars(GameStep)
    /\ SF_vars(Tick)

\* ------------------------------------------------------------ phases

\* The statement of the main program (or of game_lost / game_won, which
\* never return) that is executing or waiting for a call to return.
Bottom == IF stack = <<>> THEN pc ELSE stack[Len(stack)]

InMenu == Bottom \in {"skill_while", "skill_if", "skill_debounce"}

InGame == Bottom \notin {"start", "skill_while", "skill_if", "skill_debounce",
                         "new_game"}

InShow == Bottom \in {"show", "show_gap", "show_next"}

InLost == Bottom \in {"lost_show", "lost_halt"}

InWon == Bottom = "won"

\* game_lost has committed its illumination.
LostShown == Bottom = "lost_halt"

\* The illumination that shows exactly button k.
Showing(k) ==
    [p \in Pads |-> IF p \in Elems(InitialButtons[k].pixels)
                      THEN <<InitialButtons[k].R, InitialButtons[k].G,
                             InitialButtons[k].B>>
                      ELSE Off]

\* ------------------------------------------------------------ claims

\* C1: whenever the game is in Lost after a failed guess for index step,
\* the committed illumination is exactly the expected button
\* SIMON_BUTTONS[sequence[step]] in its colour.
C1_LostShowsExpected == LostShown => lit = Showing(At(sequence, step))

\* C2: a mismatching guess leads to Lost at once, and Lost is never left:
\* the guess index and current_step stay, the keypad is not read, and after
\* the failure cue is committed the illumination never changes.
C2_LostIsFinal ==
    [][/\ (pc = "guess_check" /\ ~SameButton(guess, At(sequence, step)))
            => pc' = "lost_show"
       /\ InLost =>
            /\ InLost'
            /\ pc' \notin ReadPoints
            /\ step' = step
            /\ current_step' = current_step
            /\ guesses' = guesses
            /\ buttons' = buttons
            /\ (LostShown => lit' = lit /\ leds' = leds)]_vars

\* C2's case: Lost after a mismatch that left entries of the round unasked.
C2_Witness == pc = "lost_halt" /\ step + 1 < current_step /\ guess # None

\* C3: every window opens afresh; a window in which no poll returned a
\* button before GUESS_TIMEOUT ends with guess None, and a None guess calls
\* game_lost with the same argument as a wrong button does.
C3_TimeoutLoses ==
    [][/\ pc = "guess_open" => elapsed' = 0 /\ guess' = None
       /\ (pc = "guess_while" /\ guess = None /\ elapsed >= GUESS_TIMEOUT)
            => pc' = "guess_check" /\ guess' = None
       /\ (pc = "guess_check" /\ guess = None)
            => pc' = "lost_show" /\ lost_step' = At(sequence, step)
       /\ (pc = "guess_check" /\ guess # None /\ guess # At(sequence, step))
            => pc' = "lost_show" /\ lost_step' = At(sequence, step)]_vars

\* C3's case: Lost by a timeout in a window after the first of its round.
C3_Witness ==
    /\ pc = "lost_halt"
    /\ guess = None
    /\ elapsed = GUESS_TIMEOUT
    /\ step > 0

\* The duration table of the playback: 420 ms up to 5, 320 ms up to 13,
\* 220 ms from 14 on.
Bucket(k) == CASE k <= 5 -> 420
               [] k >= 6 /\ k <= 13 -> 320
               [] OTHER -> 220

\* A cue of show_sequence is sounding: play_tone sleeps for tone_duration,
\* for the entry at index b.
ShowCueSounding == pc = "tone_sleep" /\ Bottom = "show_next"

\* C4 (as claimed): the cue of the entry at position k = b + 1 lasts
\* Bucket(k), whatever the step.
C4_DurationByPosition == ShowCueSounding => tone_duration = Bucket(b + 1)

\* C4 (amended): every cue of show_sequence(sequence, step) lasts
\* Bucket(step): the step of the round, not the position of the entry,
\* selects the duration.
C4_DurationByStep ==
    ShowCueSounding => tone_duration = Bucket(current_step)
                       /\ ind_duration = tone_duration

\* C4's case: in the round of step 14 the entry at position 5 sounds for
\* 220 ms.
C4_Witness ==
    ShowCueSounding /\ current_step = 14 /\ b + 1 = 5 /\ tone_duration = 220

\* C5: once the game has begun 1 <= current_step <= len(sequence) + 1, and
\* current_step exceeds len(sequence) exactly in game_won: never in a
\* playback, a guess window or the delay between rounds.
C5_StepBound ==
    InGame => /\ 1 <= current_step
              /\ current_step <= Len(sequence) + 1
              /\ (current_step > Len(sequence) <=> InWon)

\* C5's case: game_won has begun after the increment past the last entry.
C5_Witness == pc = "won" /\ won_i = 0 /\ current_step = Len(sequence) + 1

\* C6: current_step changes only by +1 at the end of a round whose guesses
\* were sequence[0..current_step-1] in order, and game_won is running
\* exactly when every round up to len(sequence) has been completed so.
C6_Progress ==
    /\ [](InGame => (InWon <=> current_step = Len(sequence) + 1))
    /\ [][(InGame /\ current_step' # current_step)
            => /\ current_step' = current_step + 1
               /\ pc = "advance"
               /\ guesses = SubSeq(sequence, 1, current_step)]_vars
    /\ [][(pc = "guess_check" /\ pc' # "lost_show")
            => guesses' = SubSeq(sequence, 1, step + 1)]_vars

\* C6's case: the last round of a game has been completed.
C6_Witness ==
    /\ InWon
    /\ guesses = sequence
    /\ current_step = Len(sequence) + 1

\* C8: in choose_skill_level the level starts at 1, is always in 1..4 and
\* is (k mod 4) + 1 after k increases; the loop test leaves the level alone
\* and, when the keypad state is exactly the start key, returns it.
C8_LevelCycle ==
    /\ [](pc # "start" => skill_level \in 1..4)
    /\ [](InMenu => skill_level = (increases % 4) + 1)
    /\ [][pc = "start" => skill_level' = 1 /\ increases' = 0]_vars
    /\ [][(pc = "skill_while" /\ pc' # pc)
            => /\ skill_level' = skill_level
               /\ pc' = IF buttons = StartMask THEN "new_game"
                                               ELSE "skill_if"]_vars

\* C8's case: five increases from the default have led to level 2.
C8_Witness == pc = "skill_while" /\ increases = 5 /\ skill_level = 2

\* C9 (as claimed): a press of the increase key raises the level once; no
\* second increase happens while the keys stay as they are.
C9_EdgeTriggered == held_increases <= 1

\* C9 (amended): the increase is level-triggered.  Every pass of the loop
\* whose second reading is exactly the increase key raises the level once
\* (4 wraps to 1) and sleeps for the debounce time, also when the key has
\* been held since the previous increase; any other reading changes
\* nothing, and the level changes in no other way.
C9_LevelTriggered ==
    /\ [][(pc = "skill_if" /\ pc' # pc)
            => IF buttons = IncreaseMask
                 THEN /\ skill_level' = (skill_level % 4) + 1
                      /\ pc' = "skill_debounce"
                 ELSE /\ skill_level' = skill_level
                      /\ pc' = "skill_while"]_vars
    /\ [][(InMenu /\ skill_level' # skill_level)
            => pc = "skill_if" /\ buttons = IncreaseMask]_vars

\* C9's case: the level has been raised a second time during one
\* uninterrupted hold of the increase key.
C9_Witness ==
    /\ pc = "skill_debounce"
    /\ held_increases = 2
    /\ buttons = IncreaseMask

ExpectedLength(l) == CASE l = 1 -> 8 [] l = 2 -> 14 [] l = 3 -> 20 [] l = 4 -> 31

\* C10: the sequence new_game returns has length SEQUENCE_LENGTH[level]
\* (8, 14, 20, 31) and elements in 1..4, and neither it nor the level
\* changes for the rest of the game.
C10_Sequence ==
    /\ [](InGame => /\ skill_level \in 1..4
                    /\ Len(sequence) = ExpectedLength(skill_level)
                    /\ \A i \in 1..Len(sequence) : sequence[i] \in 1..4)
    /\ [][pc = "new_game" => skill_level' = skill_level]_vars
    /\ [][InGame => sequence' = sequence /\ skill_level' = skill_level]_vars

\* C10's case: a level 4 game played to its end on its 31 entries.
C10_Witness == InWon /\ skill_level = 4 /\ Len(sequence) = 31

\* The buttons of the cues of game_won in order: the 26th is followed by
\* the 23rd again.
WonOrder == <<4, 2, 3, 1, 4, 2, 3, 1, 4, 2, 3, 1, 4, 2,
              3, 1, 4, 2, 3, 1, 4, 2,
              3, 1, 4, 2>>

\* The tone of the n-th cue of game_won for button k: its own for the first
\* 14, the failure tone for the next 8, none afterwards.
WonTone(n, k) == IF n <= 14 THEN InitialButtons[k].freq
                 ELSE IF n <= 22 THEN FAILURE_TONE ELSE None

\* A cue of game_won is in progress (indicate_button has not returned).
WonCueRunning == InWon /\ pc # "won"

\* C11: in game_won the cues come in the order WonOrder, each for 100 ms,
\* the first 14 with the button's own tone, the next 8 with the failure
\* tone, the rest (3,1,4,2 for ever) without the buzzer; game_won is never
\* left and the keypad is not read.
C11_WonAnimation ==
    /\ [](WonCueRunning =>
            /\ won_cues \in 1..Len(WonOrder)
            /\ button = WonOrder[won_cues]
            /\ ind_duration = 100
            /\ SIMON_BUTTONS[button].freq = WonTone(won_cues, button)
            /\ (pc = "tone_sleep" =>
                  /\ won_cues <= 22
                  /\ buzz_freq = WonTone(won_cues, button)
                  /\ tone_duration = 100)
            /\ (won_cues > 22 => duty = 0))
    /\ [][InWon => InWon' /\ pc' \notin ReadPoints /\ buttons' = buttons]_vars
    /\ [][(pc = "won" /\ stack' # stack) => pc' = "ind_on"]_vars

\* C11's case: the last cue of the silent loop, button 2 without tone.
C11_Witness ==
    /\ InWon
    /\ pc = "ind_sleep"
    /\ won_cues = 26
    /\ button = 2
    /\ buzz_freq = FAILURE_TONE

\* C12: show_sequence cues sequence[0], sequence[1], ... in order, each
\* after a gap, and returns after exactly current_step cues; the keypad is
\* not read during the playback.
C12_Playback ==
    /\ [](InShow /\ pc # "show" =>
            /\ Len(shown) <= current_step
            /\ shown = SubSeq(sequence, 1, Len(shown)))
    /\ [](pc = "guess_open" /\ step = 0 =>
            shown = SubSeq(sequence, 1, current_step))
    /\ [][(pc' = "ind_on" /\ pc # "ind_on" /\ Bottom' = "show_next")
            => pc = "show_gap" /\ Len(shown') = Len(shown) + 1]_vars
    /\ [][InShow => pc' \notin ReadPoints /\ buttons' = buttons]_vars

\* C12's case: the 14 cues of the round of step 14 have been given.
C12_Witness == pc = "guess_open" /\ step = 0 /\ Len(shown) = 14

\* C13: outside game_won every button has the tone of the initial table
\* (415, 252, 209, 310), and the table changes only in game_won.
C13_TableFixed ==
    /\ [](~InWon => /\ SIMON_BUTTONS = InitialButtons
                    /\ SIMON_BUTTONS[1].freq = 415
                    /\ SIMON_BUTTONS[2].freq = 252
                    /\ SIMON_BUTTONS[3].freq = 209
                    /\ SIMON_BUTTONS[4].freq = 310)
    /\ [][SIMON_BUTTONS' # SIMON_BUTTONS => pc = "won"]_vars

\* C13's case: the game is lost in its last round, and the failure tone was
\* played, with the table as it was.
C13_Witness ==
    /\ pc = "lost_halt"
    /\ current_step = Len(sequence)
    /\ buzz_freq = FAILURE_TONE
    /\ SIMON_BUTTONS[3].freq = 209

\* ------------------------------------------- get_button_press alone

\* A guess window of the first round of a level 1 game, just before a poll,
\* with the 16 keys in any state.
PressInit ==
    /\ pc = "get_press"
    /\ stack = <<>>
    /\ buttons \in AllMasks
    /\ leds = Clear
    /\ lit = Clear
    /\ duty = 0
    /\ SIMON_BUTTONS = InitialButtons
    /\ skill_level = 1
    /\ increases = 0
    /\ held_increases = 0
    /\ sequence = new_game(1, 0, 0, 0)
    /\ current_step = 1
    /\ b = 0
    /\ duration = ShowDuration(1)
    /\ step = 0
    /\ guess = None
    /\ guesses = <<>>
    /\ elapsed = 0
    /\ button = At(sequence, 0)
    /\ ind_duration = duration
    /\ frequency = InitialButtons[button].freq
    /\ buzz_freq = frequency
    /\ tone_duration = duration
    /\ lost_step = None
    /\ won_i = 0
    /\ shown = <<At(sequence, 0)>>
    /\ won_cues = 0
    /\ held_guesses = 0

PressNext == GetButtonPress

SpecPress == PressInit /\ [][PressNext]_vars

RECURSIVE BitCount(_)
\* The number of keys held in keypad state m.
BitCount(m) == IF m = 0 THEN 0 ELSE (m % 2) + BitCount(m \div 2)

\* Key p is held in keypad state m.
Held(m, p) == (m \div Pow2(p)) % 2 = 1

PadSet(k) == Elems(InitialButtons[k].pads)

\* get_button_press has returned None to the guess loop.
ReturnedNone == pc = "guess_while" /\ guess = None

\* get_button_press has recognized button k and begun its echo.
Recognized(k) == pc = "ind_on" /\ button = k /\ ind_duration = DEBOUNCE

\* C7: after a poll of keypad state buttons, button k is recognized iff
\* buttons is exactly one key of k's pads; no key, two or more keys (and any
\* key of no button) give None; a single key belongs to exactly one button.
C7_ExactSingleKey ==
    pc # "get_press" =>
      /\ \A k \in ButtonIds :
            Recognized(k) <=> \E p \in PadSet(k) : buttons = Pow2(p)
      /\ (\A k \in ButtonIds : ~Recognized(k)) <=> ReturnedNone
      /\ (buttons = 0 \/ BitCount(buttons) >= 2) => ReturnedNone
      /\ (\A p \in Pads : Held(buttons, p) => \A k \in ButtonIds : p \notin PadSet(k))
            => ReturnedNone
      /\ \A p \in Pads : Cardinality({k \in ButtonIds : p \in PadSet(k)}) = 1

\* C7's case: key 12 alone, among all 16-bit states, is recognized as
\* button 3.
C7_Witness == Recognized(3) /\ buttons = Pow2(12)

\* ------------------------------------------------------ later claims

\* C14: play_tone sets the frequency before it enables the output: the
\* output is never enabled while the oscillator still has the frequency of
\* an earlier call instead of that of the call in progress.
C14_FrequencyFirst == (duty # 0 /\ buzz_freq # None) => buzz_freq = frequency

\* The keys are in a state in which no single key is held alone.
NoSingleKey == buttons = 0 \/ BitCount(buttons) >= 2

\* C15: a poll of get_button_press with no key or several keys held
\* returns None at once, and a poll that returns None changes nothing: the
\* illumination buffer, the committed illumination, the buzzer, the button
\* table, sequence and current_step stay, and no cue or sleep begins.
C15_NonePollFrame ==
    [][(pc = "get_press" /\ pc' # pc) =>
         /\ NoSingleKey => pc' = "guess_while"
         /\ pc' = "guess_while" =>
              /\ guess' = None
              /\ UNCHANGED <<leds, lit, duty, buzz_freq, SIMON_BUTTONS,
                             sequence, current_step, skill_level, stack,
                             step, elapsed, button, ind_duration, frequency,
                             tone_duration, buttons>>]_vars

\* C15's case: a poll has found the two-key chord and returned None.
C15_Witness ==
    /\ ReturnedNone
    /\ BitCount(buttons) = 2
    /\ elapsed = 2
    /\ step = 1

\* The illumination of the menu for level l: l dim green indicators from
\* position 0 and the start key 15 in white.
MenuShowing(l) ==
    [p \in Pads |-> IF p < l THEN <<0, 32, 0>>
                    ELSE IF p = 15 THEN White ELSE Off]

\* C16: in the menu, once an increase is committed, exactly the positions
\* 0..level-1 and the start key 15 (white) are lit, the increase key 14
\* being off; before the first increase only key 14 is lit, in white.
C16_MenuLights ==
    /\ InMenu /\ increases = 0 =>
         lit = [p \in Pads |-> IF p = 14 THEN White ELSE Off]
    /\ InMenu /\ increases > 0 /\ pc # "skill_debounce" =>
         /\ lit = MenuShowing(skill_level)
         /\ lit[14] = Off
         /\ Cardinality({p \in Pads : lit[p] # Off}) = skill_level + 1

\* C16's case: three increases committed, level 4 shown on positions 0..3.
C16_Witness ==
    /\ pc = "skill_while"
    /\ increases = 3
    /\ skill_level = 4
    /\ lit[3] = <<0, 32, 0>>
    /\ lit[15] = White

\* C17: one press is at most one guess: no press is recognized for a key
\* that was already recognized and has been held, the keys unchanged, ever
\* since.
C17_OneGuessPerPress == held_guesses <= 1

\* C19: whenever the guess loop is about to poll the keypad, nothing is lit:
\* the committed illumination and the buffer are all off.
C19_DarkWhilePolling ==
    pc \in {"guess_open", "guess_while", "get_press", "guess_check"}
      => lit = Clear /\ leds = Clear

\* C19's case: a poll after the echo of an earlier guess of the round.
C19_Witness ==
    /\ pc = "get_press"
    /\ step = 2
    /\ Len(guesses) = 2
    /\ lit = Clear

\* C18: once choose_skill_level has returned, whatever the player does, the
\* game eventually is in Lost or in Won.
C18_GameEnds == (pc = "new_game") ~> (InLost \/ InWon)

\* C18's case: the player never guessed in a later round and the timeout
\* ended the game.
C18_Witness ==
    /\ LostShown
    /\ guess = None
    /\ elapsed = GUESS_TIMEOUT
    /\ current_step = 3
    /\ step = 0

=============================================================================
